---- MODULE Spec2Model ----
(***************************************************************************)
(* Model of the Gemini polling engine of liminigent/gemini_polling.py:     *)
(* the poll loop GeminiPollingEngine.run with its tracked-entry map, the   *)
(* dedup ledger of processed triggers, the stable end-time watermark and   *)
(* the backoff delay, together with the pure helpers detect_gemini_trigger *)
(* and highlight_gemini_content.                                           *)
(*                                                                         *)
(* Texts are sequences of tokens.  A keyword token stands for the six      *)
(* letters of "gemini" in some letter case, "s" for one other word         *)
(* character, " " and "*" for one non-word character each.                 *)
(*                                                                         *)
(* A fetch returns a sequence of lifelogs with pairwise distinct ids (the  *)
(* id is unique per source) and every lifelog carries an endTime.          *)
(***************************************************************************)
EXTENDS Integers, Sequences, FiniteSets, TLC

\* ------------------------------------------------------------------------
\* Bounds of the model
\* ------------------------------------------------------------------------

\* end-times are 1..MaxEndTime, ordered as the source orders endTime values
MaxEndTime == 2

\* a fetch that would push a stable_count above this cap is not taken
MaxStableCount == 3

\* a cycle does not fail after this many consecutive failed cycles
MaxFailures == 7

\* the texts the two text functions are applied to have at most this many tokens
MaxLen == 3

\* highlight_gemini_content is applied at most this many times in a row
MaxHighlights == 2

\* start_conversation is called with at most this many rounds
MaxRounds == 3

Ids == {"A", "B"}

EndTimes == 1..MaxEndTime

Titles == {"Standup"}

\* ------------------------------------------------------------------------
\* Program constants (GeminiPollingEngine.__init__ and run)
\* ------------------------------------------------------------------------

backoff_initial == 5

backoff_max == 300

stable_polls_required == 3

\* last_stable_end_time = None
NoneTime == 0

\* most_recent_update = None
NoUpdate == << >>

\* the empty string
EmptyText == << >>

\* ------------------------------------------------------------------------
\* Texts, detect_gemini_trigger, highlight_gemini_content
\* ------------------------------------------------------------------------

KeywordTokens == {"gemini", "Gemini"}

WordTokens == {"s"}

NonWordTokens == {" ", "*"}

\* \w : the characters of a keyword token and "s" are word characters
IsWordToken(t) == t \in KeywordTokens \cup WordTokens

\* r'\bgemini\b' with re.IGNORECASE matches exactly at token i
MatchesAt(text, i) ==
    /\ text[i] \in KeywordTokens
    /\ (i = 1 \/ ~IsWordToken(text[i - 1]))
    /\ (i = Len(text) \/ ~IsWordToken(text[i + 1]))

detect_gemini_trigger_Substring(t) ==
    IF t = EmptyText
    THEN FALSE
    ELSE \E i \in 1..Len(t) : t[i] \in KeywordTokens

detect_gemini_trigger_CaseSensitive(t) ==
    IF t = EmptyText
    THEN FALSE
    ELSE \E i \in 1..Len(t) : MatchesAt(t, i) /\ t[i] = "gemini"

detect_gemini_trigger(text) ==
    IF text = EmptyText
    THEN FALSE
    ELSE \E i \in 1..Len(text) : MatchesAt(text, i)

replace_match_Lowercase(tok) == <<"*", "*", "gemini", "*", "*">>

\* replace_match: f"**{match.group(1)}**"
replace_match(tok) == <<"*", "*", tok, "*", "*">>

RECURSIVE SubFrom(_, _)
\* re.sub over the tokens i..Len(content), matches taken on the original text
SubFrom(content, i) ==
    IF i > Len(content)
    THEN << >>
    ELSE (IF MatchesAt(content, i) THEN replace_match(content[i]) ELSE <<content[i]>>)
         \o SubFrom(content, i + 1)

highlight_gemini_content(content) ==
    IF content = EmptyText
    THEN content
    ELSE SubFrom(content, 1)

\* ------------------------------------------------------------------------
\* Inputs of the poll loop
\* ------------------------------------------------------------------------

\* the markdown of the lifelogs the loop is run on
Contents == { <<"s">>, <<"s", " ", "Gemini">> }

\* what the feed can report: lifelog "A" with any content and end-time,
\* lifelog "B" with any content and the earliest end-time
Lifelogs ==
    { l \in [id : Ids, markdown : Contents, endTime : EndTimes, title : Titles] :
        l.id = "B" => l.endTime = 1 }

\* what fetch_lifelogs can return: lifelogs in any order, ids distinct
FetchResults ==
    { s \in UNION { [1..n -> Lifelogs] : n \in 0..Cardinality(Ids) } :
        \A i, j \in DOMAIN s : i # j => s[i].id # s[j].id }

\* ------------------------------------------------------------------------
\* Classification of one fetch result (the for loop of run)
\* ------------------------------------------------------------------------

IsUpdated_ContentOnly(prev, raw_content, end_time) ==
    raw_content # prev.content

\* raw_content != prev["content"] or end_time != prev["endTime"]
IsUpdated(prev, raw_content, end_time) ==
    raw_content # prev.content \/ end_time # prev.endTime

ReplacesUpdate_GreaterOrEqual(mru, end_time) ==
    mru = NoUpdate \/ end_time >= mru[1].lifelog.endTime

\* most_recent_update is None or end_time > most_recent_update[0]["endTime"]
ReplacesUpdate(mru, end_time) ==
    mru = NoUpdate \/ end_time > mru[1].lifelog.endTime

FreshRecord_CountZero(raw_content, end_time) ==
    [content |-> raw_content, endTime |-> end_time, stable_count |-> 0]

\* the record stored for a new or updated lifelog
FreshRecord(raw_content, end_time) ==
    [content |-> raw_content, endTime |-> end_time, stable_count |-> 1]

Unchanged_NoIncrement(prev) == prev

Unchanged_PlusTwo(prev) == [prev EXCEPT !.stable_count = @ + 2]

\* last_lifelogs[lifelog_id]["stable_count"] += 1
Unchanged(prev) == [prev EXCEPT !.stable_count = @ + 1]

\* the tuple (lifelog, prev_content, processed_content, has_gemini_trigger)
UpdateTuple(lifelog, prev_content) ==
    [lifelog            |-> lifelog,
     prev_content       |-> prev_content,
     processed_content  |-> highlight_gemini_content(lifelog.markdown),
     has_gemini_trigger |-> detect_gemini_trigger(lifelog.markdown)]

\* one iteration of "for lifelog in lifelogs"; st.candidates records the
\* lifelogs that took the "new" or the "updated" branch
ProcessLifelog(st, lifelog) ==
    LET lifelog_id  == lifelog.id
        raw_content == lifelog.markdown
        end_time    == lifelog.endTime
        seen        == lifelog_id \in DOMAIN st.last_lifelogs
    IN  IF ~seen
        THEN [last_lifelogs      |-> (lifelog_id :> FreshRecord(raw_content, end_time))
                                      @@ st.last_lifelogs,
              most_recent_update |-> <<UpdateTuple(lifelog, EmptyText)>>,
              updated_ids        |-> st.updated_ids \cup {lifelog_id},
              candidates         |-> st.candidates \cup {UpdateTuple(lifelog, EmptyText)}]
        ELSE LET prev == st.last_lifelogs[lifelog_id]
             IN  IF IsUpdated(prev, raw_content, end_time)
                 THEN [last_lifelogs      |-> [st.last_lifelogs EXCEPT
                                                 ![lifelog_id] = FreshRecord(raw_content, end_time)],
                       most_recent_update |->
                           IF ReplacesUpdate(st.most_recent_update, end_time)
                           THEN <<UpdateTuple(lifelog, prev.content)>>
                           ELSE st.most_recent_update,
                       updated_ids        |-> st.updated_ids \cup {lifelog_id},
                       candidates         |-> st.candidates
                                                \cup {UpdateTuple(lifelog, prev.content)}]
                 ELSE [last_lifelogs      |-> [st.last_lifelogs EXCEPT
                                                 ![lifelog_id] = Unchanged(prev)],
                       most_recent_update |-> st.most_recent_update,
                       updated_ids        |-> st.updated_ids \cup {lifelog_id},
                       candidates         |-> st.candidates]

RECURSIVE ProcessAll(_, _)
\* the whole for loop, in fetch order
ProcessAll(st, logs) ==
    IF logs = << >>
    THEN st
    ELSE ProcessAll(ProcessLifelog(st, Head(logs)), Tail(logs))

RemoveAbsent_KeepAll(last, updated_ids) == last

RemoveAbsent_KeepIfEmpty(last, updated_ids) ==
    IF updated_ids = {}
    THEN last
    ELSE [i \in (DOMAIN last) \cap updated_ids |-> last[i]]

\* "Clean up tracking for removed lifelogs"
RemoveAbsent(last, updated_ids) ==
    [i \in (DOMAIN last) \cap updated_ids |-> last[i]]

\* the state after the for loop and the clean-up
Classify(last, logs) ==
    LET st == ProcessAll([last_lifelogs      |-> last,
                          most_recent_update |-> NoUpdate,
                          updated_ids        |-> {},
                          candidates         |-> {}], logs)
    IN  [st EXCEPT !.last_lifelogs = RemoveAbsent(st.last_lifelogs, st.updated_ids)]

\* ------------------------------------------------------------------------
\* Trigger dedup, stable watermark, backoff
\* ------------------------------------------------------------------------

\* f"{lifelog_id}:{end_time}:{has_gemini_trigger}"
TriggerId(lifelog_id, end_time, has_gemini_trigger) ==
    <<lifelog_id, ":", end_time, ":", has_gemini_trigger>>

TriggerIdOf(upd) ==
    TriggerId(upd.lifelog.id, upd.lifelog.endTime, upd.has_gemini_trigger)

TriggerIds == { TriggerId(i, t, b) : i \in Ids, t \in EndTimes, b \in BOOLEAN }

ShouldProcessTrigger_NoDedup(upd, processed) ==
    upd.has_gemini_trigger

ShouldProcessTrigger_AnyContent(upd, processed) ==
    TriggerIdOf(upd) \notin processed

ShouldProcessTrigger_NewAlways(upd, processed) ==
    /\ upd.has_gemini_trigger
    /\ (TriggerIdOf(upd) \notin processed \/ upd.prev_content = EmptyText)

\* has_gemini_trigger and trigger_id not in self.processed_gemini_triggers
ShouldProcessTrigger(upd, processed) ==
    upd.has_gemini_trigger /\ TriggerIdOf(upd) \notin processed

StableLifelogs_OneEarly(last) ==
    { i \in DOMAIN last : last[i].stable_count >= stable_polls_required - 1 }

\* the ids with stable_count >= stable_polls_required
StableLifelogs(last) ==
    { i \in DOMAIN last : last[i].stable_count >= stable_polls_required }

MaxOf(S) == CHOOSE m \in S : \A x \in S : x <= m

\* max(stable_lifelogs, key=endTime)[1]["endTime"]
LatestStable(last) == MaxOf({ last[i].endTime : i \in StableLifelogs(last) })

NextStableEndTime_Reset(last, current) ==
    IF StableLifelogs(last) # {}
    THEN LatestStable(last)
    ELSE NoneTime

NextStableEndTime_NoneWhenEmpty(last, current) ==
    IF StableLifelogs(last) # {}
    THEN LatestStable(last)
    ELSE IF last = << >> THEN NoneTime ELSE current

\* the value of last_stable_end_time after "Update stable endTime tracking"
NextStableEndTime(last, current) ==
    IF StableLifelogs(last) # {}
    THEN LatestStable(last)
    ELSE current

NextBackoff_Linear(b) ==
    IF b + backoff_initial < backoff_max THEN b + backoff_initial ELSE backoff_max

NextBackoff_NoCap(b) == b * 2

\* min(backoff * 2, self.backoff_max)
NextBackoff(b) == IF b * 2 < backoff_max THEN b * 2 ELSE backoff_max

\* ------------------------------------------------------------------------
\* State
\* ------------------------------------------------------------------------

VARIABLES
    pc,                        \* where run is within the current cycle
    last_lifelogs,             \* lifelog_id -> [content, endTime, stable_count]
    last_stable_end_time,      \* the stable watermark, NoneTime when None
    backoff,                   \* the backoff delay
    processed_gemini_triggers, \* the dedup ledger
    lifelogs,                  \* the fetch result of the current cycle
    most_recent_update,        \* NoUpdate or <<update tuple>>
    candidates,                \* update tuples of the new/updated lifelogs of the cycle
    trigger_calls,             \* trigger id -> number of process_gemini_trigger calls
    cycle_calls,               \* process_gemini_trigger calls of the current cycle
    trigger_outcome,           \* how process_gemini_trigger ended in this cycle
    transcript,                \* log_difference appends of the current cycle
    fetched,                   \* fetch_lifelogs has returned in the current cycle
    sleeping,                  \* the argument of the asyncio.sleep in progress, else 0
    failures,                  \* consecutive cycles that ended in the except clause
    start,                     \* the local start of run, given to fetch_lifelogs
    text,                      \* the argument the text functions are called on
    outputs,                   \* results of successive highlight_gemini_content calls
    detections,                \* results of detect_gemini_trigger on text and outputs
    conv_pc,                   \* where start_conversation is
    initial_prompt,            \* argument of start_conversation
    rounds,                    \* argument of start_conversation
    round_num,                 \* the loop variable of start_conversation
    current_prompt,            \* local of start_conversation
    current_instance,          \* local of start_conversation
    responding_instance,       \* local of start_conversation
    conversation_log,          \* ConversationOrchestrator.conversation_log
    conversation_history       \* instance -> CodexInstance.conversation_history

vars == <<pc, last_lifelogs, last_stable_end_time, backoff,
          processed_gemini_triggers, lifelogs, most_recent_update, candidates,
          trigger_calls, cycle_calls, trigger_outcome, transcript,
          fetched, sleeping, failures, start, text, outputs, detections,
          conv_pc, initial_prompt, rounds, round_num, current_prompt,
          current_instance, responding_instance, conversation_log,
          conversation_history>>

\* the variables of ConversationOrchestrator and its two CodexInstances
convvars == <<conv_pc, initial_prompt, rounds, round_num, current_prompt,
              current_instance, responding_instance, conversation_log,
              conversation_history>>

\* the variables of the calls of the two text functions on their own
textvars == <<text, outputs, detections>>

\* the variables of the poll loop
loopvars == <<pc, last_lifelogs, last_stable_end_time, backoff,
              processed_gemini_triggers, lifelogs, most_recent_update, candidates,
              trigger_calls, cycle_calls, trigger_outcome, transcript,
              fetched, sleeping, failures, start>>

engine == <<last_lifelogs, last_stable_end_time, backoff, processed_gemini_triggers>>

cycle == <<lifelogs, most_recent_update, candidates, cycle_calls, trigger_outcome, transcript>>

NoOutcome == "none"

\* how process_gemini_trigger can end. It returns in four ways: the response
\* was sent, gemini timed out, gemini gave no response for another reason
\* (not found, non-zero exit, an exception, empty output), or the
\* notification could not be sent. It raises when
\* get_current_transcript_context raises: the call of line 280 is before
\* the try of line 300, and transcript_path.exists() of line 243 is outside
\* the try of that function (an unreadable transcript folder gives
\* PermissionError)
ReturnedOutcomes == {"notified", "timeout", "no_response", "notify_failed"}

RaisedOutcome == "raised"

TriggerOutcomes == ReturnedOutcomes \cup {RaisedOutcome}

\* the two CodexInstance objects of a ConversationOrchestrator
Instances == {"instance1", "instance2"}

\* CodexInstance.name, as the callers set it
InstanceName(i) == IF i = "instance1" THEN "Codex Alpha" ELSE "Codex Beta"

\* ConversationOrchestrator.__init__ and CodexInstance.__init__ have run and
\* start_conversation has not been called
ConvConstructed ==
    /\ conv_pc = "constructed"
    /\ initial_prompt = ""
    /\ rounds = 0
    /\ round_num = 0
    /\ current_prompt = ""
    /\ current_instance = "instance1"
    /\ responding_instance = "instance2"
    /\ conversation_log = << >>
    /\ conversation_history = [i \in Instances |-> << >>]

Init ==
    /\ pc = "fetch"
    /\ last_lifelogs = << >>
    /\ last_stable_end_time = NoneTime
    /\ backoff = backoff_initial
    /\ processed_gemini_triggers = {}
    /\ lifelogs = << >>
    /\ most_recent_update = NoUpdate
    /\ candidates = {}
    /\ trigger_calls = [k \in TriggerIds |-> 0]
    /\ cycle_calls = 0
    /\ trigger_outcome = NoOutcome
    /\ transcript = << >>
    /\ fetched = FALSE
    /\ sleeping = 0
    /\ failures = 0
    /\ start = NoneTime
    /\ text = EmptyText
    /\ outputs = << >>
    /\ detections = << >>
    /\ ConvConstructed

\* ------------------------------------------------------------------------
\* Actions: the steps of one pass through "while True"
\* ------------------------------------------------------------------------

ResetCycle ==
    /\ lifelogs' = << >>
    /\ most_recent_update' = NoUpdate
    /\ candidates' = {}
    /\ cycle_calls' = 0
    /\ trigger_outcome' = NoOutcome
    /\ transcript' = << >>

FetchFail_DropsTracking ==
    /\ pc = "fetch"
    /\ start' = last_stable_end_time
    /\ UNCHANGED <<textvars, convvars>>
    /\ failures < MaxFailures
    /\ pc' = "except"
    /\ sleeping' = backoff
    /\ fetched' = FALSE
    /\ last_lifelogs' = << >>
    /\ UNCHANGED <<last_stable_end_time, backoff, processed_gemini_triggers, cycle,
                   trigger_calls, failures>>

StartParam_Always(s) == {s}

\* if start: params["start"] = start
StartParam(s) == IF s # NoneTime THEN {s} ELSE {}

\* fetch_lifelogs raises: control goes to the except clause, which sleeps
FetchFail ==
    /\ pc = "fetch"
    /\ start' = last_stable_end_time
    /\ UNCHANGED <<textvars, convvars>>
    /\ failures < MaxFailures
    /\ pc' = "except"
    /\ sleeping' = backoff
    /\ fetched' = FALSE
    /\ UNCHANGED <<engine, cycle, trigger_calls, failures>>

FetchOk_AnyCandidate ==
    /\ pc = "fetch"
    /\ start' = last_stable_end_time
    /\ UNCHANGED <<textvars, convvars>>
    /\ \E logs \in FetchResults :
          LET st == Classify(last_lifelogs, logs)
          IN  /\ \A i \in DOMAIN st.last_lifelogs :
                    st.last_lifelogs[i].stable_count <= MaxStableCount
              /\ lifelogs' = logs
              /\ last_lifelogs' = st.last_lifelogs
              /\ IF st.candidates = {}
                 THEN most_recent_update' = NoUpdate
                 ELSE \E c \in st.candidates : most_recent_update' = <<c>>
              /\ candidates' = st.candidates
    /\ IF most_recent_update' = NoUpdate
       THEN /\ last_stable_end_time' =
                  NextStableEndTime(last_lifelogs', last_stable_end_time)
            /\ pc' = "sleep"
            /\ sleeping' = backoff
            /\ UNCHANGED processed_gemini_triggers
       ELSE IF ShouldProcessTrigger(most_recent_update'[1], processed_gemini_triggers)
       THEN /\ processed_gemini_triggers' =
                  processed_gemini_triggers \cup {TriggerIdOf(most_recent_update'[1])}
            /\ pc' = "trigger"
            /\ UNCHANGED <<last_stable_end_time, sleeping>>
       ELSE /\ pc' = "log"
            /\ UNCHANGED <<last_stable_end_time, processed_gemini_triggers, sleeping>>
    /\ fetched' = TRUE
    /\ UNCHANGED <<backoff, trigger_calls, cycle_calls, trigger_outcome, transcript,
                   failures>>

\* the step of run from the return of fetch_lifelogs to its next call out:
\* the for loop, the clean-up, the test of most_recent_update and of the
\* trigger, and, when there is no update, "Update stable endTime tracking"
\* up to asyncio.sleep(backoff)
FetchOk ==
    /\ pc = "fetch"
    /\ start' = last_stable_end_time
    /\ UNCHANGED <<textvars, convvars>>
    /\ \E logs \in FetchResults :
          LET st == Classify(last_lifelogs, logs)
          IN  /\ \A i \in DOMAIN st.last_lifelogs :
                    st.last_lifelogs[i].stable_count <= MaxStableCount
              /\ lifelogs' = logs
              /\ last_lifelogs' = st.last_lifelogs
              /\ most_recent_update' = st.most_recent_update
              /\ candidates' = st.candidates
    /\ IF most_recent_update' = NoUpdate
       THEN /\ last_stable_end_time' =
                  NextStableEndTime(last_lifelogs', last_stable_end_time)
            /\ pc' = "sleep"
            /\ sleeping' = backoff
            /\ UNCHANGED processed_gemini_triggers
       ELSE IF ShouldProcessTrigger(most_recent_update'[1], processed_gemini_triggers)
       THEN /\ processed_gemini_triggers' =
                  processed_gemini_triggers \cup {TriggerIdOf(most_recent_update'[1])}
            /\ pc' = "trigger"
            /\ UNCHANGED <<last_stable_end_time, sleeping>>
       ELSE /\ pc' = "log"
            /\ UNCHANGED <<last_stable_end_time, processed_gemini_triggers, sleeping>>
    /\ fetched' = TRUE
    /\ UNCHANGED <<backoff, trigger_calls, cycle_calls, trigger_outcome, transcript,
                   failures>>

ProcessGeminiTrigger_Retry ==
    /\ pc = "trigger"
    /\ UNCHANGED <<start, textvars, convvars>>
    /\ \E o \in ReturnedOutcomes : trigger_outcome' = o
    /\ trigger_calls' = [trigger_calls EXCEPT ![TriggerIdOf(most_recent_update[1])] = @ + 1]
    /\ cycle_calls' = cycle_calls + 1
    /\ pc' = IF trigger_outcome' = "no_response" THEN "trigger" ELSE "log"
    /\ UNCHANGED <<engine, lifelogs, most_recent_update, candidates, transcript,
                   fetched, sleeping, failures>>

ProcessGeminiTrigger_Raises ==
    /\ pc = "trigger"
    /\ UNCHANGED <<start, textvars, convvars>>
    /\ trigger_calls' = [trigger_calls EXCEPT ![TriggerIdOf(most_recent_update[1])] = @ + 1]
    /\ \E o \in TriggerOutcomes :
          IF o = RaisedOutcome
          THEN /\ failures < MaxFailures
               /\ pc' = "except"
               /\ sleeping' = backoff
               /\ ResetCycle
          ELSE /\ trigger_outcome' = o
               /\ cycle_calls' = cycle_calls + 1
               /\ IF o = "timeout"
                  THEN pc' = "except" /\ sleeping' = backoff
                  ELSE pc' = "log" /\ sleeping' = sleeping
               /\ UNCHANGED <<lifelogs, most_recent_update, candidates, transcript>>
    /\ UNCHANGED <<engine, fetched, failures>>

ProcessGeminiTrigger_Detached ==
    /\ pc = "trigger"
    /\ UNCHANGED <<start, textvars, convvars>>
    /\ pc' = "log"
    /\ UNCHANGED <<engine, cycle, trigger_calls, fetched, sleeping, failures>>

ProcessGeminiTrigger_AllCandidates ==
    /\ pc = "trigger"
    /\ UNCHANGED <<start, textvars, convvars>>
    /\ \E o \in ReturnedOutcomes : trigger_outcome' = o
    /\ trigger_calls' =
          [k \in DOMAIN trigger_calls |->
              IF \E c \in candidates : c.has_gemini_trigger /\ k = TriggerIdOf(c)
              THEN trigger_calls[k] + 1
              ELSE trigger_calls[k]]
    /\ cycle_calls' = cycle_calls + 1
    /\ pc' = "log"
    /\ UNCHANGED <<engine, lifelogs, most_recent_update, candidates, transcript,
                   fetched, sleeping, failures>>

ProcessGeminiTrigger_ForgetsOnFailure ==
    /\ pc = "trigger"
    /\ UNCHANGED <<start, textvars, convvars>>
    /\ \E o \in ReturnedOutcomes : trigger_outcome' = o
    /\ trigger_calls' = [trigger_calls EXCEPT ![TriggerIdOf(most_recent_update[1])] = @ + 1]
    /\ cycle_calls' = cycle_calls + 1
    /\ pc' = "log"
    /\ processed_gemini_triggers' =
          IF trigger_outcome' = "notified"
          THEN processed_gemini_triggers
          ELSE processed_gemini_triggers \ {TriggerIdOf(most_recent_update[1])}
    /\ UNCHANGED <<last_lifelogs, last_stable_end_time, backoff, lifelogs,
                   most_recent_update, candidates, transcript, fetched, sleeping,
                   failures>>

ProcessGeminiTrigger_AfterLog ==
    /\ pc = "trigger"
    /\ UNCHANGED <<start, textvars, convvars>>
    /\ transcript' = Append(transcript,
                            [prev_content |-> most_recent_update[1].prev_content,
                             new_content  |-> most_recent_update[1].processed_content,
                             timestamp    |-> most_recent_update[1].lifelog.endTime,
                             title        |-> most_recent_update[1].lifelog.title])
    /\ pc' = "log"
    /\ UNCHANGED <<engine, lifelogs, most_recent_update, candidates, trigger_calls,
                   cycle_calls, trigger_outcome, fetched, sleeping, failures>>

\* await self.process_gemini_trigger(lifelog, processed_content), to its
\* end: when it returns, run goes on to log_difference; when it raises, run
\* goes to the except clause, which sleeps, and log_difference is not called
ProcessGeminiTrigger ==
    /\ pc = "trigger"
    /\ UNCHANGED <<start, textvars, convvars>>
    /\ trigger_calls' = [trigger_calls EXCEPT ![TriggerIdOf(most_recent_update[1])] = @ + 1]
    /\ \E o \in TriggerOutcomes :
          IF o = RaisedOutcome
          THEN /\ failures < MaxFailures
               /\ pc' = "except"
               /\ sleeping' = backoff
               /\ ResetCycle
          ELSE /\ trigger_outcome' = o
               /\ cycle_calls' = cycle_calls + 1
               /\ pc' = "log"
               /\ UNCHANGED <<lifelogs, most_recent_update, candidates, transcript,
                              sleeping>>
    /\ UNCHANGED <<engine, fetched, failures>>

\* the arguments of log_difference that reach append_to_transcript
LogEntry(upd) ==
    [prev_content |-> upd.prev_content,
     new_content  |-> upd.processed_content,
     timestamp    |-> upd.lifelog.endTime,
     title        |-> upd.lifelog.title]

\* "if diff" of log_difference is false: unified_diff of the previous
\* content and the new content gives no line when the two are the same text
DiffIsEmpty(upd) == upd.prev_content = upd.processed_content

\* log_difference returns, then "Update stable endTime tracking" up to
\* asyncio.sleep(backoff)
LogOk ==
    /\ pc = "log"
    /\ UNCHANGED <<start, textvars, convvars>>
    /\ transcript' = Append(transcript, LogEntry(most_recent_update[1]))
    /\ last_stable_end_time' = NextStableEndTime(last_lifelogs, last_stable_end_time)
    /\ pc' = "sleep"
    /\ sleeping' = backoff
    /\ UNCHANGED <<last_lifelogs, backoff, processed_gemini_triggers, lifelogs,
                   most_recent_update, candidates, trigger_calls, cycle_calls,
                   trigger_outcome, fetched, failures>>

LogFail_Uncaught ==
    /\ pc = "log"
    /\ UNCHANGED <<start, textvars, convvars>>
    /\ failures < MaxFailures
    /\ pc' = "exit"
    /\ ResetCycle
    /\ UNCHANGED <<engine, trigger_calls, fetched, sleeping, failures>>

LogFail_Untracks ==
    /\ pc = "log"
    /\ UNCHANGED <<start, textvars, convvars>>
    /\ failures < MaxFailures
    /\ pc' = "except"
    /\ sleeping' = backoff
    /\ last_lifelogs' =
          [i \in DOMAIN last_lifelogs \ {most_recent_update[1].lifelog.id} |->
              last_lifelogs[i]]
    /\ ResetCycle
    /\ UNCHANGED <<last_stable_end_time, backoff, processed_gemini_triggers,
                   trigger_calls, fetched, failures>>

\* log_difference raises and control goes to the except clause, which
\* sleeps. Either append_to_transcript raises and the transcript is not
\* written, or append_to_transcript has written the entry and the open or
\* the write of debug_diffs.txt raises, which is reached "if diff"
LogFail ==
    /\ pc = "log"
    /\ UNCHANGED <<start, textvars, convvars>>
    /\ failures < MaxFailures
    /\ pc' = "except"
    /\ sleeping' = backoff
    /\ lifelogs' = << >>
    /\ most_recent_update' = NoUpdate
    /\ candidates' = {}
    /\ cycle_calls' = 0
    /\ trigger_outcome' = NoOutcome
    /\ \/ transcript' = transcript
       \/ /\ ~DiffIsEmpty(most_recent_update[1])
          /\ transcript' = Append(transcript, LogEntry(most_recent_update[1]))
    /\ UNCHANGED <<engine, trigger_calls, fetched, failures>>

\* asyncio.sleep(backoff) of the try block returns; backoff = self.backoff_initial
SleepOk ==
    /\ pc = "sleep"
    /\ UNCHANGED <<start, textvars, convvars>>
    /\ backoff' = backoff_initial
    /\ pc' = "fetch"
    /\ sleeping' = 0
    /\ failures' = 0
    /\ fetched' = FALSE
    /\ ResetCycle
    /\ UNCHANGED <<last_lifelogs, last_stable_end_time, processed_gemini_triggers,
                   trigger_calls>>

\* asyncio.sleep(backoff) of the except clause returns;
\* backoff = min(backoff * 2, self.backoff_max)
SleepRetry ==
    /\ pc = "except"
    /\ UNCHANGED <<start, textvars, convvars>>
    /\ backoff' = NextBackoff(backoff)
    /\ pc' = "fetch"
    /\ sleeping' = 0
    /\ failures' = failures + 1
    /\ fetched' = FALSE
    /\ ResetCycle
    /\ UNCHANGED <<last_lifelogs, last_stable_end_time, processed_gemini_triggers,
                   trigger_calls>>

Next ==
    \/ FetchFail
    \/ FetchOk
    \/ ProcessGeminiTrigger
    \/ LogOk
    \/ LogFail
    \/ SleepOk
    \/ SleepRetry

Spec == Init /\ [][Next]_vars

\* the calls out return or raise (the analysis call has a timeout) and the
\* sleeps end
Fairness ==
    /\ WF_vars(FetchOk \/ FetchFail)
    /\ WF_vars(ProcessGeminiTrigger)
    /\ WF_vars(LogOk \/ LogFail)
    /\ WF_vars(SleepOk)
    /\ WF_vars(SleepRetry)

FairSpec == Spec /\ Fairness

\* ------------------------------------------------------------------------
\* The poll loop on the feed of one lifelog that settles and then changes
\* ------------------------------------------------------------------------

\* what fetch_lifelogs returns, given what is tracked: lifelog "A" without
\* the keyword and with end-time 1 until it has been seen three times, and
\* from then on "A" with the keyword and end-time 2
TraceFeed(last) ==
    IF \/ "A" \notin DOMAIN last
       \/ (last["A"].content = <<"s">> /\ last["A"].stable_count < 3)
    THEN << [id |-> "A", markdown |-> <<"s">>, endTime |-> 1, title |-> "Standup"] >>
    ELSE << [id |-> "A", markdown |-> <<"s", " ", "Gemini">>, endTime |-> 2,
             title |-> "Standup"] >>

TraceFetchOk ==
    /\ FetchOk
    /\ lifelogs' = TraceFeed(last_lifelogs)

TraceNext ==
    \/ FetchFail
    \/ TraceFetchOk
    \/ ProcessGeminiTrigger
    \/ LogOk
    \/ LogFail
    \/ SleepOk
    \/ SleepRetry

TraceSpec == Init /\ [][TraceNext]_vars

\* ------------------------------------------------------------------------
\* detect_gemini_trigger and highlight_gemini_content called on their own
\* ------------------------------------------------------------------------

Tokens == KeywordTokens \cup WordTokens \cup NonWordTokens

\* the arguments: every text of at most MaxLen tokens, the empty one included
Texts == UNION { [1..n -> Tokens] : n \in 0..MaxLen }

\* the k-th text of the chain text, highlight(text), highlight(highlight(text))
TextAt(k) == IF k = 1 THEN text ELSE outputs[k - 1]

TextInit ==
    /\ pc = "fetch"
    /\ last_lifelogs = << >>
    /\ last_stable_end_time = NoneTime
    /\ backoff = backoff_initial
    /\ processed_gemini_triggers = {}
    /\ lifelogs = << >>
    /\ most_recent_update = NoUpdate
    /\ candidates = {}
    /\ trigger_calls = [k \in TriggerIds |-> 0]
    /\ cycle_calls = 0
    /\ trigger_outcome = NoOutcome
    /\ transcript = << >>
    /\ fetched = FALSE
    /\ sleeping = 0
    /\ failures = 0
    /\ start = NoneTime
    /\ text \in Texts
    /\ outputs = << >>
    /\ detections = << >>
    /\ ConvConstructed

\* self.highlight_gemini_content(content), on the text or on the last output
CallHighlight ==
    /\ Len(outputs) < MaxHighlights
    /\ outputs' = Append(outputs, highlight_gemini_content(TextAt(Len(outputs) + 1)))
    /\ UNCHANGED <<text, detections, loopvars, convvars>>

\* self.detect_gemini_trigger(text), on the next text of the chain
CallDetect ==
    /\ Len(detections) <= Len(outputs)
    /\ detections' = Append(detections, detect_gemini_trigger(TextAt(Len(detections) + 1)))
    /\ UNCHANGED <<text, outputs, loopvars, convvars>>

TextNext ==
    \/ CallHighlight
    \/ CallDetect

TextSpec == TextInit /\ [][TextNext]_vars

\* ------------------------------------------------------------------------
\* ConversationOrchestrator.start_conversation
\* ------------------------------------------------------------------------

InitialPrompts == {"Design a web app"}

\* what _parse_codex_output returns when codex exits with code 0
CleanOutputs == {"idea", "plan"}

\* how a call of send_prompt can end: codex exits with 0 and an output, exits
\* with another code, times out, is not found, or another exception is raised
SendOutcomes ==
    { [kind |-> "ok", text |-> t] : t \in CleanOutputs }
        \cup { [kind |-> k, text |-> ""] : k \in {"failed", "timeout", "not_found", "exception"} }

\* the string send_prompt returns
send_prompt(outcome) ==
    IF outcome.kind = "ok" THEN outcome.text
    ELSE IF outcome.kind = "failed" THEN "Error: Unknown error occurred"
    ELSE IF outcome.kind = "timeout" THEN "Error: Command timed out after 120 seconds"
    ELSE IF outcome.kind = "not_found"
    THEN "Error: 'codex' command not found. Please ensure codex is installed and in your PATH."
    ELSE "Error executing command: error"

\* send_prompt appends to the instance's history only when codex exits with 0
HistoryAfter(history, prompt, outcome) ==
    IF outcome.kind = "ok"
    THEN Append(history, [prompt |-> prompt, response |-> outcome.text])
    ELSE history

\* the call of start_conversation up to the first round (or, with no round,
\* up to save_conversation); every caller calls it once on a new orchestrator
StartConversation ==
    /\ conv_pc = "constructed"
    /\ \E p \in InitialPrompts, r \in 0..MaxRounds :
          /\ initial_prompt' = p
          /\ rounds' = r
          /\ current_prompt' = p
          /\ round_num' = IF r >= 1 THEN 1 ELSE 0
          /\ conv_pc' = IF r >= 1 THEN "round" ELSE "save"
    /\ current_instance' = "instance1"
    /\ responding_instance' = "instance2"
    /\ UNCHANGED <<conversation_log, conversation_history, loopvars, textvars>>

ConversationRound_RetriesOnError ==
    /\ conv_pc = "round"
    /\ \E outcome \in SendOutcomes :
          LET response == send_prompt(outcome)
          IN  /\ conversation_history' =
                    [conversation_history EXCEPT ![current_instance] =
                        HistoryAfter(@, current_prompt, outcome)]
              /\ conversation_log' =
                    Append(conversation_log,
                           [round    |-> round_num,
                            speaker  |-> InstanceName(current_instance),
                            prompt   |-> current_prompt,
                            response |-> response])
              /\ current_prompt' = IF outcome.kind = "ok" THEN response ELSE current_prompt
    /\ current_instance' = responding_instance
    /\ responding_instance' = current_instance
    /\ conv_pc' = IF round_num < rounds THEN "wait" ELSE "save"
    /\ UNCHANGED <<initial_prompt, rounds, round_num, loopvars, textvars>>

\* one pass of "for round_num in range(1, rounds + 1)" up to time.sleep(3)
ConversationRound ==
    /\ conv_pc = "round"
    /\ \E outcome \in SendOutcomes :
          LET response == send_prompt(outcome)
          IN  /\ conversation_history' =
                    [conversation_history EXCEPT ![current_instance] =
                        HistoryAfter(@, current_prompt, outcome)]
              /\ conversation_log' =
                    Append(conversation_log,
                           [round    |-> round_num,
                            speaker  |-> InstanceName(current_instance),
                            prompt   |-> current_prompt,
                            response |-> response])
              /\ current_prompt' = response
    /\ current_instance' = responding_instance
    /\ responding_instance' = current_instance
    /\ conv_pc' = IF round_num < rounds THEN "wait" ELSE "save"
    /\ UNCHANGED <<initial_prompt, rounds, round_num, loopvars, textvars>>

\* time.sleep(3) returns and the for loop takes its next value
WaitBetweenRounds ==
    /\ conv_pc = "wait"
    /\ round_num' = round_num + 1
    /\ conv_pc' = "round"
    /\ UNCHANGED <<initial_prompt, rounds, current_prompt, current_instance,
                   responding_instance, conversation_log, conversation_history,
                   loopvars, textvars>>

\* self.save_conversation() returns and start_conversation completes
SaveConversation ==
    /\ conv_pc = "save"
    /\ conv_pc' = "completed"
    /\ UNCHANGED <<initial_prompt, rounds, round_num, current_prompt,
                   current_instance, responding_instance, conversation_log,
                   conversation_history, loopvars, textvars>>

\* self.save_conversation() raises (the file cannot be written) and the
\* exception leaves start_conversation
SaveConversationFails ==
    /\ conv_pc = "save"
    /\ conv_pc' = "raised"
    /\ UNCHANGED <<initial_prompt, rounds, round_num, current_prompt,
                   current_instance, responding_instance, conversation_log,
                   conversation_history, loopvars, textvars>>

ConvNext ==
    \/ StartConversation
    \/ ConversationRound
    \/ WaitBetweenRounds
    \/ SaveConversation
    \/ SaveConversationFails

ConvSpec == Init /\ [][ConvNext]_vars

TypeOK ==
    /\ pc \in {"fetch", "trigger", "log", "sleep", "except"}
    /\ DOMAIN last_lifelogs \subseteq Ids
    /\ last_stable_end_time \in {NoneTime} \cup EndTimes
    /\ backoff \in backoff_initial..backoff_max
    /\ processed_gemini_triggers \subseteq TriggerIds
    /\ cycle_calls \in Nat
    /\ fetched \in BOOLEAN
    /\ sleeping \in {0} \cup (backoff_initial..backoff_max)
    /\ failures \in 0..MaxFailures
    /\ start \in {NoneTime} \cup EndTimes
    /\ conv_pc \in {"constructed", "round", "wait", "save", "completed", "raised"}
    /\ rounds \in 0..MaxRounds
    /\ round_num \in 0..MaxRounds
    /\ current_instance \in Instances
    /\ responding_instance \in Instances
    /\ Len(conversation_log) <= MaxRounds
    /\ Len(text) <= MaxLen
    /\ Len(outputs) <= MaxHighlights
    /\ Len(detections) <= Len(outputs) + 1

\* ------------------------------------------------------------------------
\* Properties
\* ------------------------------------------------------------------------

Range(seq) == { seq[i] : i \in DOMAIN seq }

\* a step in which fetch_lifelogs returned and the fetch result was classified
FetchOkStep == pc = "fetch" /\ pc' \in {"trigger", "log", "sleep"}

\* the lifelogs of the new fetch result, against the tracked map before it
IsNew(l) == l.id \notin DOMAIN last_lifelogs

IsChanged(l) ==
    /\ l.id \in DOMAIN last_lifelogs
    /\ (l.markdown # last_lifelogs[l.id].content \/ l.endTime # last_lifelogs[l.id].endTime)

IsSame(l) ==
    /\ l.id \in DOMAIN last_lifelogs
    /\ l.markdown = last_lifelogs[l.id].content
    /\ l.endTime = last_lifelogs[l.id].endTime

\* the dedup key of an update, from the raw content of its lifelog
KeyOf(upd) ==
    <<upd.lifelog.id, ":", upd.lifelog.endTime, ":", detect_gemini_trigger(upd.lifelog.markdown)>>

\* C1: process_gemini_trigger is invoked at most once for each key
\* (identifier, end-time, trigger-present), and a call that is about to be
\* made is the first one for its key.
C1_AtMostOncePerKey ==
    /\ \A k \in TriggerIds : trigger_calls[k] <= 1
    /\ pc = "trigger" => trigger_calls[KeyOf(most_recent_update[1])] = 0

\* an update whose key was acted on in an earlier cycle is selected again
\* and passes the trigger test without a call
C1_Witness ==
    /\ pc = "log"
    /\ most_recent_update # NoUpdate
    /\ detect_gemini_trigger(most_recent_update[1].lifelog.markdown)
    /\ cycle_calls = 0
    /\ trigger_calls[KeyOf(most_recent_update[1])] = 1

\* C2: in a successful cycle with a selected update the trigger action is
\* invoked iff the raw content has the trigger and the key is not in the
\* ledger; then the key is in the ledger afterwards, otherwise the ledger is
\* unchanged; the call that follows is the one call for that key, and the
\* call itself and the logging leave the ledger alone.
C2_TriggerIffNewKey ==
    [][ /\ (FetchOkStep /\ most_recent_update' # NoUpdate) =>
              LET upd == most_recent_update'[1]
              IN  IF /\ detect_gemini_trigger(upd.lifelog.markdown)
                     /\ KeyOf(upd) \notin processed_gemini_triggers
                  THEN /\ pc' = "trigger"
                       /\ processed_gemini_triggers' =
                              processed_gemini_triggers \cup {KeyOf(upd)}
                  ELSE /\ pc' = "log"
                       /\ processed_gemini_triggers' = processed_gemini_triggers
        /\ pc = "trigger" =>
              /\ trigger_calls[KeyOf(most_recent_update[1])] = 0
              /\ trigger_calls'[KeyOf(most_recent_update[1])] = 1
              /\ pc' = "log" => cycle_calls' = 1
              /\ processed_gemini_triggers' = processed_gemini_triggers
        /\ pc = "log" =>
              /\ cycle_calls' \in {0, cycle_calls}
              /\ processed_gemini_triggers' = processed_gemini_triggers
      ]_vars

\* the trigger action has run in this cycle and its key is in the ledger
C2_Witness ==
    /\ pc = "log"
    /\ cycle_calls = 1
    /\ KeyOf(most_recent_update[1]) \in processed_gemini_triggers

\* C3: the selected update is a candidate of the cycle with the maximum
\* end-time among the candidates, and there is none exactly when the cycle
\* has no candidate.
C3_SelectsMaxEndTime ==
    pc \in {"trigger", "log", "sleep"} =>
        /\ most_recent_update = NoUpdate <=> candidates = {}
        /\ most_recent_update # NoUpdate =>
              /\ most_recent_update[1] \in candidates
              /\ \A c \in candidates :
                    c.lifelog.endTime <= most_recent_update[1].lifelog.endTime

\* C4: at the end of a successful cycle every new or changed lifelog of the
\* cycle has been appended to the transcript.
C4_AllCandidatesLogged ==
    pc = "sleep" =>
        \A c \in candidates :
            \E e \in Range(transcript) :
                /\ e.prev_content = c.prev_content
                /\ e.new_content = c.processed_content
                /\ e.timestamp = c.lifelog.endTime
                /\ e.title = c.lifelog.title

\* C5: in one cycle the trigger action is invoked at most once and at most
\* one update reaches the transcript, however many lifelogs are new or changed.
C5_AtMostOneActionPerCycle ==
    /\ cycle_calls <= 1
    /\ Len(transcript) <= 1
    /\ Len(most_recent_update) <= 1

\* two candidates that both contain the trigger, one trigger call
C5_Witness ==
    /\ pc = "sleep"
    /\ Cardinality(candidates) >= 2
    /\ \A c \in candidates : c.has_gemini_trigger
    /\ cycle_calls = 1
    /\ Len(transcript) = 1

\* the end-times of the tracked lifelogs that meet the stability threshold
StableEndTimes(last) ==
    { last[i].endTime : i \in { j \in DOMAIN last : last[j].stable_count >= 3 } }

IsMaxOf(m, S) == m \in S /\ \A x \in S : x <= m

C7_WatermarkNeverDecreases ==
    [][ last_stable_end_time # NoneTime =>
            last_stable_end_time' >= last_stable_end_time ]_vars

\* C8: a fetched lifelog whose id is not tracked is stored with its content
\* and end-time and stable_count 1, and is a candidate with empty
\* previous content.
C8_NewEntryClassified ==
    [][ FetchOkStep =>
            \A i \in DOMAIN lifelogs' :
                LET l == lifelogs'[i]
                IN  IsNew(l) =>
                      /\ l.id \in DOMAIN last_lifelogs'
                      /\ last_lifelogs'[l.id] =
                            [content |-> l.markdown, endTime |-> l.endTime,
                             stable_count |-> 1]
                      /\ \E c \in candidates' :
                            c.lifelog = l /\ c.prev_content = EmptyText
      ]_vars

\* a cycle with a tracked lifelog left unchanged and a first-seen lifelog
C8_Witness ==
    /\ pc \in {"trigger", "log", "sleep"}
    /\ \E c \in candidates :
          /\ c.prev_content = EmptyText
          /\ last_lifelogs[c.lifelog.id].stable_count = 1
    /\ \E i \in DOMAIN last_lifelogs : last_lifelogs[i].stable_count >= 2

\* C9: a tracked lifelog returned with identical content and end-time has
\* its stable_count incremented by exactly 1, keeps its stored content and
\* end-time, is no candidate and is not the selected update.
C9_UnchangedEntryCounted ==
    [][ FetchOkStep =>
            \A i \in DOMAIN lifelogs' :
                LET l == lifelogs'[i]
                IN  IsSame(l) =>
                      /\ l.id \in DOMAIN last_lifelogs'
                      /\ last_lifelogs'[l.id] =
                            [content      |-> last_lifelogs[l.id].content,
                             endTime      |-> last_lifelogs[l.id].endTime,
                             stable_count |-> last_lifelogs[l.id].stable_count + 1]
                      /\ \A c \in candidates' : c.lifelog.id # l.id
                      /\ most_recent_update' # NoUpdate =>
                            most_recent_update'[1].lifelog.id # l.id
      ]_vars

\* a lifelog was counted unchanged in a cycle that selected another update
C9_Witness ==
    /\ pc = "log"
    /\ \E i \in DOMAIN last_lifelogs :
          /\ last_lifelogs[i].stable_count = 3
          /\ most_recent_update[1].lifelog.id # i

\* C10: a tracked lifelog returned with a different content or a different
\* end-time is stored with the new values and stable_count 1, and is a
\* candidate whose previous content is the content stored before the cycle.
C10_ChangedEntryClassified ==
    [][ FetchOkStep =>
            \A i \in DOMAIN lifelogs' :
                LET l == lifelogs'[i]
                IN  IsChanged(l) =>
                      /\ l.id \in DOMAIN last_lifelogs'
                      /\ last_lifelogs'[l.id] =
                            [content |-> l.markdown, endTime |-> l.endTime,
                             stable_count |-> 1]
                      /\ \E c \in candidates' :
                            /\ c.lifelog = l
                            /\ c.prev_content = last_lifelogs[l.id].content
      ]_vars

\* one lifelog changed in its end-time alone and another in its content
\* alone, in the same cycle
C10_Witness ==
    /\ pc \in {"trigger", "log"}
    /\ \E c, d \in candidates :
          /\ c.prev_content = c.lifelog.markdown
          /\ d.prev_content # EmptyText
          /\ d.prev_content # d.lifelog.markdown
          /\ c.lifelog.id # d.lifelog.id

\* C11: after the classification of a fetch result the tracked ids are
\* exactly the ids of that fetch result, and the watermark set at the end of
\* the cycle is the end-time of a stable lifelog of that fetch result.
C11_TrackedIsFetched ==
    pc \in {"trigger", "log", "sleep"} =>
        /\ DOMAIN last_lifelogs = { lifelogs[i].id : i \in DOMAIN lifelogs }
        /\ (pc = "sleep" /\ StableEndTimes(last_lifelogs) # {}) =>
              \E i \in DOMAIN lifelogs :
                  /\ last_lifelogs[lifelogs[i].id].stable_count >= 3
                  /\ last_lifelogs[lifelogs[i].id].endTime = last_stable_end_time

\* lifelog A was stable with end-time 2 and is gone from the fetch result
C11_Witness ==
    /\ pc = "sleep"
    /\ Len(lifelogs) = 1
    /\ DOMAIN last_lifelogs = {"B"}
    /\ last_stable_end_time = 2

\* C12: the stable_count of a tracked id counts the consecutive fetch results
\* that returned it with its stored content and end-time: it is at least 1,
\* a fetch result takes it from n to n + 1 when the stored values stay and
\* to 1 otherwise, no other step changes it, and a watermark that moves
\* moves to the end-time of a lifelog with stable_count >= 3.
C12_CountIsUnchangedStreak ==
    [][ /\ \A i \in DOMAIN last_lifelogs' : last_lifelogs'[i].stable_count >= 1
        /\ FetchOkStep =>
              \A i \in DOMAIN last_lifelogs' :
                  last_lifelogs'[i].stable_count =
                      IF /\ i \in DOMAIN last_lifelogs
                         /\ last_lifelogs[i].content = last_lifelogs'[i].content
                         /\ last_lifelogs[i].endTime = last_lifelogs'[i].endTime
                      THEN last_lifelogs[i].stable_count + 1
                      ELSE 1
        /\ ~FetchOkStep => last_lifelogs' = last_lifelogs
        /\ last_stable_end_time' # last_stable_end_time =>
              \E i \in DOMAIN last_lifelogs' :
                  /\ last_lifelogs'[i].stable_count >= 3
                  /\ last_lifelogs'[i].endTime = last_stable_end_time'
      ]_vars

\* one lifelog reached the threshold and set the watermark while another
\* was just reset
C12_Witness ==
    /\ pc = "sleep"
    /\ \E i, j \in DOMAIN last_lifelogs :
          /\ last_lifelogs[i].stable_count = 3
          /\ last_lifelogs[i].endTime = last_stable_end_time
          /\ last_lifelogs[j].stable_count = 1

\* C13: after k consecutive failed cycles the backoff delay is
\* min(initial * 2^k, max), and it is the initial value after a successful
\* cycle (k = 0).
C13_BackoffIsDoubledPerFailure ==
    LET doubled == 5 * 2^failures
    IN  backoff = IF doubled < 300 THEN doubled ELSE 300

\* six fetch failures in a row from the start: the cap is reached
C13_Witness ==
    /\ pc = "fetch"
    /\ failures = 6
    /\ backoff = 300
    /\ last_lifelogs = << >>
    /\ processed_gemini_triggers = {}

\* C14: the backoff delay is always between the initial value and the maximum.
C14_BackoffInRange == 5 <= backoff /\ backoff <= 300

\* the delay stays at the maximum when a cycle fails at the maximum
C14_Witness ==
    /\ pc = "fetch"
    /\ failures = 7
    /\ backoff = 300

\* C15: when the fetch of a cycle succeeded, the backoff delay is the initial
\* value when the next fetch is attempted.
C15_SuccessfulFetchResetsBackoff ==
    [][ (fetched /\ pc # "fetch" /\ pc' = "fetch") => backoff' = 5 ]_vars

\* C16: the sleep that ends a successful cycle lasts the initial delay.
C16_SuccessSleepIsInitial ==
    pc = "sleep" => sleeping = 5

\* C17: a cycle whose fetch fails leaves the tracked map, the ledger and the
\* watermark unchanged and makes no trigger call and no transcript append;
\* only the backoff delay changes.
C17_FailedFetchOnlyBacksOff ==
    [][ /\ (pc = "fetch" /\ pc' = "except") =>
              /\ UNCHANGED <<last_lifelogs, processed_gemini_triggers,
                             last_stable_end_time, backoff, trigger_calls>>
              /\ cycle_calls' = 0
              /\ transcript' = << >>
        /\ (pc = "except" /\ ~fetched) =>
              /\ UNCHANGED <<last_lifelogs, processed_gemini_triggers,
                             last_stable_end_time, trigger_calls>>
              /\ cycle_calls' = 0
              /\ transcript' = << >>
              /\ pc' = "fetch"
      ]_vars

\* a fetch failed while lifelogs are tracked, a trigger is recorded and the
\* watermark is set
C17_Witness ==
    /\ pc = "except"
    /\ ~fetched
    /\ last_lifelogs # << >>
    /\ processed_gemini_triggers # {}
    /\ last_stable_end_time # NoneTime

FailedOutcomes == {"timeout", "no_response", "notify_failed"}

\* C18: when the analysis invocation fails (timeout, not found, non-zero
\* exit, exception, empty output) or the notification send fails, the cycle
\* goes on to the transcript logging with the tracked map, the ledger, the
\* watermark and the backoff delay untouched and without entering the
\* except clause; after such a failure the logging and the watermark update
\* take place and the cycle ends in the sleep of the try block, after which
\* the delay is the initial value.
C18_TriggerFailureContained ==
    [][ /\ (pc = "trigger" /\ trigger_outcome' \in FailedOutcomes) =>
              /\ pc' = "log"
              /\ sleeping' = 0
              /\ UNCHANGED <<last_lifelogs, processed_gemini_triggers,
                             last_stable_end_time, backoff, failures>>
        /\ (pc = "log" /\ trigger_outcome \in FailedOutcomes /\ pc' = "sleep") =>
              /\ Len(transcript') = 1
              /\ UNCHANGED <<last_lifelogs, backoff, failures>>
              /\ IF StableEndTimes(last_lifelogs) = {}
                 THEN last_stable_end_time' = last_stable_end_time
                 ELSE IsMaxOf(last_stable_end_time', StableEndTimes(last_lifelogs))
        /\ (pc = "sleep" /\ trigger_outcome \in FailedOutcomes) =>
              /\ pc' = "fetch"
              /\ backoff' = 5
              /\ failures' = 0
      ]_vars

\* the analysis timed out and the update is in the transcript
C18_Witness ==
    /\ pc = "sleep"
    /\ trigger_outcome = "timeout"
    /\ Len(transcript) = 1

\* C19: the loop has no terminal state: wherever a cycle stands (in the
\* trigger action, in the logging, in either sleep, after a failed fetch or
\* another error), a further fetch is attempted later.
C19_FetchAgain ==
    /\ (pc # "fetch") ~> (pc = "fetch")
    /\ []<><<FetchOk \/ FetchFail>>_vars

\* the loop is back at the fetch after failed cycles and a trigger action
C19_Witness ==
    /\ pc = "fetch"
    /\ failures = 3
    /\ processed_gemini_triggers # {}

\* C20: cycles do not overlap: a trigger action that was started (its key is
\* in the ledger) has ended whenever the loop is anywhere but in that trigger
\* action, in particular when a fetch begins; while it runs, the fetch of
\* its cycle has returned, no sleep is in progress and it is the only one.
C20_NoOverlap ==
    /\ pc # "trigger" =>
          \A k \in processed_gemini_triggers : trigger_calls[k] = 1
    /\ pc = "trigger" =>
          /\ fetched
          /\ sleeping = 0
          /\ Cardinality({ k \in processed_gemini_triggers : trigger_calls[k] = 0 }) = 1
    /\ pc = "fetch" => (~fetched /\ sleeping = 0 /\ trigger_outcome = NoOutcome)

\* a fetch begins after two trigger actions have run
C20_Witness ==
    /\ pc = "fetch"
    /\ Cardinality(processed_gemini_triggers) >= 2

\* C21: a cycle with a selected update goes to the transcript logging, after
\* the trigger action when there is one; the logging is called once, with
\* the content stored before the cycle (empty for a first-seen lifelog), the
\* highlighted content, the end-time and the title of the selected lifelog,
\* and it either appends that entry or raises; nothing else writes the
\* transcript.
C21_SelectedUpdateLoggedOnce ==
    [][ /\ (FetchOkStep /\ most_recent_update' # NoUpdate) =>
              /\ pc' \in {"trigger", "log"}
              /\ most_recent_update'[1].prev_content =
                    IF most_recent_update'[1].lifelog.id \in DOMAIN last_lifelogs
                    THEN last_lifelogs[most_recent_update'[1].lifelog.id].content
                    ELSE << >>
        /\ pc = "trigger" => (pc' = "log" /\ most_recent_update' = most_recent_update)
        /\ pc = "log" =>
              /\ most_recent_update # NoUpdate
              /\ \/ pc' = "except"
                 \/ /\ pc' = "sleep"
                    /\ transcript' =
                         << [prev_content |-> most_recent_update[1].prev_content,
                             new_content  |->
                                 highlight_gemini_content(most_recent_update[1].lifelog.markdown),
                             timestamp    |-> most_recent_update[1].lifelog.endTime,
                             title        |-> most_recent_update[1].lifelog.title] >>
        /\ pc # "log" => transcript' = << >>
      ]_vars

\* C22: on the feed that returns lifelog A without the keyword and with
\* end-time 1 three times and then A with the keyword and end-time 2: the
\* watermark is none while A's stable_count is below 3 and is 1 once it is 3,
\* with no trigger recorded or called; the fourth result makes A the
\* selected update with its old content as previous content and stable_count
\* 1, records the key of (A, 2, true) and calls the trigger action for it;
\* that action is called once in all and no other key is ever called.
C22_TraceOfA ==
    LET key == <<"A", ":", 2, ":", TRUE>>
    IN  /\ \A k \in DOMAIN trigger_calls : k # key => trigger_calls[k] = 0
        /\ trigger_calls[key] <= 1
        /\ "A" \in DOMAIN last_lifelogs =>
              LET r == last_lifelogs["A"]
              IN  IF r.content = <<"s">>
                  THEN /\ r.endTime = 1
                       /\ processed_gemini_triggers = {}
                       /\ trigger_calls[key] = 0
                       /\ last_stable_end_time =
                             IF r.stable_count < 3 THEN NoneTime ELSE 1
                  ELSE /\ r.content = <<"s", " ", "Gemini">>
                       /\ r.endTime = 2
                       /\ processed_gemini_triggers = {key}
                       /\ pc # "trigger" => trigger_calls[key] = 1
                       /\ pc = "trigger" =>
                             /\ r.stable_count = 1
                             /\ most_recent_update[1].prev_content = <<"s">>
                             /\ candidates = {most_recent_update[1]}

\* A with the keyword has been returned unchanged twice after the cycle
\* that called the trigger action
C22_Witness ==
    /\ pc = "sleep"
    /\ "A" \in DOMAIN last_lifelogs
    /\ last_lifelogs["A"].content = <<"s", " ", "Gemini">>
    /\ last_lifelogs["A"].stable_count = 3
    /\ trigger_calls[<<"A", ":", 2, ":", TRUE>>] = 1

\* C23: every fetch is given the current watermark as start, which is
\* passed on as the lower bound when it is not none and left out when it is
\* none; the watermark changes only in the step that ends a successful
\* cycle, so the bound of a fetch is the watermark of the last such cycle.
C23_FetchBoundedByWatermark ==
    [][ /\ (pc = "fetch" /\ pc' # "fetch") =>
              /\ start' = last_stable_end_time
              /\ StartParam(start') =
                    IF last_stable_end_time = NoneTime
                    THEN {}
                    ELSE {last_stable_end_time}
        /\ last_stable_end_time' # last_stable_end_time =>
              (pc \in {"fetch", "log"} /\ pc' = "sleep")
      ]_vars

\* the second failed fetch in a row was still bounded by the watermark
C23_Witness ==
    /\ pc = "except"
    /\ ~fetched
    /\ failures >= 1
    /\ start = 2
    /\ StartParam(start) = {2}

RECURSIVE SelectedIndex(_, _, _)
\* the index in logs of the lifelog held as most recent update after the
\* first n lifelogs of logs were classified against last, 0 when there is none
SelectedIndex(last, logs, n) ==
    IF n = 0
    THEN 0
    ELSE LET held == SelectedIndex(last, logs, n - 1)
             l    == logs[n]
         IN  IF l.id \notin DOMAIN last
             THEN n
             ELSE IF /\ (l.markdown # last[l.id].content \/ l.endTime # last[l.id].endTime)
                     /\ (held = 0 \/ l.endTime > logs[held].endTime)
                  THEN n
                  ELSE held

\* C26: the selected update is a function of the tracked map and the fetch
\* result in its order: one pass over the fetch result determines it, also
\* when candidates have the same end-time.
C26_SelectionDeterministic ==
    [][ FetchOkStep =>
            LET k == SelectedIndex(last_lifelogs, lifelogs', Len(lifelogs'))
            IN  IF k = 0
                THEN most_recent_update' = NoUpdate
                ELSE /\ most_recent_update' # NoUpdate
                     /\ most_recent_update'[1].lifelog = lifelogs'[k]
      ]_vars

\* two candidates with the same end-time
C26_Witness ==
    /\ pc \in {"trigger", "log"}
    /\ Cardinality(candidates) = 2
    /\ \A c \in candidates : c.lifelog.endTime = 1

\* C27: a fetch that returns no lifelog gives no candidate and no selected
\* update, empties the tracked map, leaves the ledger and the call counts
\* unchanged and goes straight to the sleep; nothing is logged in that cycle.
C27_EmptyFetch ==
    [][ /\ (FetchOkStep /\ lifelogs' = << >>) =>
              /\ candidates' = {}
              /\ most_recent_update' = NoUpdate
              /\ last_lifelogs' = << >>
              /\ pc' = "sleep"
              /\ UNCHANGED <<processed_gemini_triggers, trigger_calls, cycle_calls,
                             transcript>>
        /\ (pc = "sleep" /\ fetched /\ lifelogs = << >>) =>
              /\ pc' = "fetch"
              /\ transcript = << >>
              /\ cycle_calls = 0
              /\ UNCHANGED <<last_lifelogs, processed_gemini_triggers, trigger_calls>>
      ]_vars

\* the empty fetch result came when lifelogs were tracked and a trigger was
\* recorded
C27_Witness ==
    /\ pc = "sleep"
    /\ fetched
    /\ lifelogs = << >>
    /\ last_lifelogs = << >>
    /\ processed_gemini_triggers # {}
    /\ last_stable_end_time # NoneTime

\* the indexes of the first-seen and of the changed lifelogs of a fetch result
NewIndexes(last, logs) == { i \in DOMAIN logs : logs[i].id \notin DOMAIN last }

ChangedIndexes(last, logs) ==
    { i \in DOMAIN logs :
        /\ logs[i].id \in DOMAIN last
        /\ (logs[i].markdown # last[logs[i].id].content
              \/ logs[i].endTime # last[logs[i].id].endTime) }

\* the last first-seen lifelog, unless changed lifelogs after it have a
\* strictly greater end-time: then the earliest of those with the greatest
\* end-time; 0 when no lifelog is first-seen or changed
ExpectedIndex(last, logs) ==
    LET N     == NewIndexes(last, logs)
        n     == IF N = {} THEN 0 ELSE CHOOSE i \in N : \A j \in N : j <= i
        Later == { j \in ChangedIndexes(last, logs) :
                     /\ j > n
                     /\ (n = 0 \/ logs[j].endTime > logs[n].endTime) }
        Top   == { j \in Later : \A k \in Later : logs[k].endTime <= logs[j].endTime }
    IN  IF Later = {} THEN n ELSE CHOOSE j \in Top : \A k \in Top : j <= k

\* C29: the selected update is the last first-seen lifelog in fetch order,
\* unless a changed lifelog later in the order has a strictly greater
\* end-time; among changed lifelogs with equal end-times the earliest is kept.
C29_SelectionRule ==
    [][ FetchOkStep =>
            LET k == ExpectedIndex(last_lifelogs, lifelogs')
            IN  IF k = 0
                THEN most_recent_update' = NoUpdate
                ELSE /\ most_recent_update' # NoUpdate
                     /\ most_recent_update'[1].lifelog = lifelogs'[k]
                     /\ most_recent_update'[1].lifelog \in
                           { c.lifelog : c \in candidates' }
      ]_vars

\* a changed lifelog with the greater end-time was selected over a
\* first-seen one
C29_Witness ==
    /\ pc \in {"trigger", "log"}
    /\ most_recent_update[1].prev_content # << >>
    /\ \E c \in candidates :
          /\ c.prev_content = << >>
          /\ c.lifelog.endTime < most_recent_update[1].lifelog.endTime

\* C30: the trigger action is called only for the key of the selected update
\* of the current cycle, and a cycle calls it only when its selected update
\* is first-seen or changed in that cycle's fetch result; a lifelog with the
\* keyword that was a candidate but not selected, or that is returned
\* unchanged, gets no call.
C30_TriggerOnlyForSelected ==
    [][ /\ \A k \in DOMAIN trigger_calls :
              trigger_calls'[k] # trigger_calls[k] =>
                  /\ pc = "trigger"
                  /\ most_recent_update # NoUpdate
                  /\ k = KeyOf(most_recent_update[1])
                  /\ most_recent_update[1].lifelog \in Range(lifelogs)
        /\ (FetchOkStep /\ pc' = "trigger") =>
              /\ most_recent_update'[1].lifelog \in Range(lifelogs')
              /\ ~IsSame(most_recent_update'[1].lifelog)
        /\ FetchOkStep =>
              \A l \in Range(lifelogs') :
                  (most_recent_update' = NoUpdate \/ l # most_recent_update'[1].lifelog) =>
                      LET k == <<l.id, ":", l.endTime, ":", TRUE>>
                      IN  (k \in processed_gemini_triggers') =
                              (k \in processed_gemini_triggers)
      ]_vars

\* a tracked lifelog with the keyword has been returned unchanged and was
\* never selected with its key: no trigger action was called for it
C30_Witness ==
    /\ pc = "sleep"
    /\ \E i \in DOMAIN last_lifelogs :
          /\ last_lifelogs[i].content = <<"s", " ", "Gemini">>
          /\ last_lifelogs[i].stable_count >= 2
          /\ <<i, ":", last_lifelogs[i].endTime, ":", TRUE>> \notin processed_gemini_triggers
          /\ trigger_calls[<<i, ":", last_lifelogs[i].endTime, ":", TRUE>>] = 0

\* the token is the keyword in some letter case
IsKeyword(tok) == tok \in {"gemini", "Gemini"}

\* the token consists of word characters
IsWord(tok) == tok \in {"gemini", "Gemini", "s"}

\* token i of t is the keyword as a whole word: no word character touches it
WholeWordAt(t, i) ==
    /\ IsKeyword(t[i])
    /\ (i > 1 => ~IsWord(t[i - 1]))
    /\ (i < Len(t) => ~IsWord(t[i + 1]))

WholeWords(t) == { i \in DOMAIN t : WholeWordAt(t, i) }

\* C24: detect_gemini_trigger returns false for the empty text and otherwise
\* true exactly when some token is the keyword, in either letter case, with
\* no word token next to it; the call changes neither its argument nor any
\* earlier result.
C24_DetectIsWholeWordMatch ==
    [][ detections' # detections =>
            LET k   == Len(detections) + 1
                arg == IF k = 1 THEN text ELSE outputs[k - 1]
            IN  /\ detections' =
                       Append(detections, arg # << >> /\ WholeWords(arg) # {})
                /\ UNCHANGED <<text, outputs>>
      ]_vars

\* "geminis": the keyword directly followed by a word token is not a match
C24_Witness ==
    /\ text = <<"gemini", "s">>
    /\ detections = <<FALSE>>

\* where token i of t is in the highlighted text
Shifted(t, i) ==
    i + 4 * Cardinality({ j \in WholeWords(t) : j < i })
      + (IF i \in WholeWords(t) THEN 2 ELSE 0)

\* out is t with "**" put before and after every whole-word keyword token
\* and nothing else changed
IsWrapped(t, out) ==
    /\ WholeWords(t) = {} => out = t
    /\ Len(out) = Len(t) + 4 * Cardinality(WholeWords(t))
    /\ \A i \in DOMAIN t :
          /\ out[Shifted(t, i)] = t[i]
          /\ i \in WholeWords(t) =>
                /\ out[Shifted(t, i) - 2] = "*"
                /\ out[Shifted(t, i) - 1] = "*"
                /\ out[Shifted(t, i) + 1] = "*"
                /\ out[Shifted(t, i) + 2] = "*"

\* C25: highlight_gemini_content returns a text without a whole-word keyword
\* unchanged and otherwise puts ** before and after every whole-word keyword
\* token, keeping the token's letter case and every other token.
C25_HighlightWrapsWholeWords ==
    \A k \in DOMAIN outputs :
        IsWrapped(IF k = 1 THEN text ELSE outputs[k - 1], outputs[k])

\* two matches in different letter case
C25_Witness ==
    /\ text = <<"Gemini", " ", "gemini">>
    /\ Len(outputs) >= 1
    /\ outputs[1] = <<"*", "*", "Gemini", "*", "*", " ", "*", "*", "gemini", "*", "*">>

\* C28: highlighting a highlighted text returns it unchanged.
C28_HighlightIdempotent ==
    Len(outputs) >= 2 => outputs[2] = outputs[1]

\* C31: the key of a trigger is in the ledger when its trigger action is
\* about to be called, and the key of every call that was made is in the
\* ledger ever after, whatever the outcome of the call; no key is called twice.
C31_FailedTriggerNotRetried ==
    /\ pc = "trigger" =>
          /\ KeyOf(most_recent_update[1]) \in processed_gemini_triggers
          /\ trigger_calls[KeyOf(most_recent_update[1])] = 0
    /\ trigger_outcome \in FailedOutcomes =>
          KeyOf(most_recent_update[1]) \in processed_gemini_triggers
    /\ \A k \in DOMAIN trigger_calls :
          /\ trigger_calls[k] <= 1
          /\ trigger_calls[k] = 1 => k \in processed_gemini_triggers

\* the notification of a response failed; the key stays recorded
C31_Witness ==
    /\ pc = "sleep"
    /\ trigger_outcome = "notify_failed"
    /\ trigger_calls[KeyOf(most_recent_update[1])] = 1
    /\ KeyOf(most_recent_update[1]) \in processed_gemini_triggers

\* a step in which the trigger action or the logging raised
AbandonStep == pc \in {"trigger", "log"} /\ pc' = "except"

\* what an abandoned cycle leaves of the classification: the tracked map
\* and the ledger as the classification left them (the selected lifelog is
\* stored with its new content and stable_count 1) and the watermark as it
\* was before the cycle
AbandonKeepsChanges ==
    /\ UNCHANGED <<last_lifelogs, processed_gemini_triggers, last_stable_end_time>>
    /\ last_stable_end_time = start
    /\ last_lifelogs[most_recent_update[1].lifelog.id] =
          [content      |-> most_recent_update[1].lifelog.markdown,
           endTime      |-> most_recent_update[1].lifelog.endTime,
           stable_count |-> 1]

\* a next fetch that returns only lifelogs equal to what is stored selects
\* no update
SameAgainSelectsNothing ==
    (FetchOkStep /\ \A l \in Range(lifelogs') : IsSame(l)) =>
        /\ most_recent_update' = NoUpdate
        /\ pc' = "sleep"

\* C32 as stated: when the trigger action or the logging raises after a
\* successful fetch, the cycle ends in the except clause with the tracked
\* map and the ledger as the classification left them and the watermark as
\* it was before the cycle, and the update is not in the transcript; a next
\* fetch that returns only lifelogs equal to what is stored selects no update.
C32_AbandonedUpdateNeverLogged ==
    [][ /\ AbandonStep => (AbandonKeepsChanges /\ transcript' = << >>)
        /\ (pc = "except" /\ fetched) =>
              /\ UNCHANGED <<last_lifelogs, processed_gemini_triggers,
                             last_stable_end_time, trigger_calls>>
        /\ SameAgainSelectsNothing
      ]_vars

\* C32 amended: when the trigger action or the logging raises after a
\* successful fetch, the cycle ends in the except clause with the tracked
\* map and the ledger as the classification left them and the watermark as
\* it was before the cycle; the update is in the transcript only when the
\* logging raised after appending it, which needs a previous content that
\* differs from the new one; a next fetch that returns only lifelogs equal
\* to what is stored selects no update, so nothing is appended for it later.
C32_AbandonedCycleKeepsChanges ==
    [][ /\ AbandonStep =>
              /\ AbandonKeepsChanges
              /\ \/ transcript' = << >>
                 \/ /\ pc = "log"
                    /\ most_recent_update[1].prev_content #
                          highlight_gemini_content(most_recent_update[1].lifelog.markdown)
                    /\ transcript' =
                         << [prev_content |-> most_recent_update[1].prev_content,
                             new_content  |->
                                 highlight_gemini_content(most_recent_update[1].lifelog.markdown),
                             timestamp    |-> most_recent_update[1].lifelog.endTime,
                             title        |-> most_recent_update[1].lifelog.title] >>
        /\ (pc = "except" /\ fetched) =>
              /\ UNCHANGED <<last_lifelogs, processed_gemini_triggers,
                             last_stable_end_time, trigger_calls>>
              /\ transcript' = << >>
        /\ SameAgainSelectsNothing
      ]_vars

\* the logging raised after appending the update, in a cycle in which a
\* lifelog reached the threshold: the watermark is still none
C32_Witness ==
    /\ pc = "except"
    /\ fetched
    /\ Len(transcript) = 1
    /\ last_stable_end_time = NoneTime
    /\ StableEndTimes(last_lifelogs) # {}

\* C33: a fetched lifelog that is not tracked is stored with stable_count 1
\* even when its key is in the ledger; when it is selected its previous
\* content is empty, it goes to the logging, and with its key in the ledger
\* no trigger action is called; a fetch never removes a key from the ledger.
C33_LedgerOutlivesTracking ==
    [][ FetchOkStep =>
            /\ processed_gemini_triggers \subseteq processed_gemini_triggers'
            /\ \A l \in Range(lifelogs') :
                  (IsNew(l) /\ <<l.id, ":", l.endTime, ":", TRUE>> \in processed_gemini_triggers) =>
                      /\ last_lifelogs'[l.id].stable_count = 1
                      /\ (most_recent_update'[1].lifelog = l /\ WholeWords(l.markdown) # {}) =>
                            /\ most_recent_update'[1].prev_content = << >>
                            /\ pc' = "log"
                            /\ processed_gemini_triggers' = processed_gemini_triggers
      ]_vars

\* a lifelog with the keyword came back after its trigger action had been
\* called: it is logged as new and no second call is made
C33_Witness ==
    /\ pc = "sleep"
    /\ Len(transcript) = 1
    /\ transcript[1].prev_content = << >>
    /\ most_recent_update[1].has_gemini_trigger
    /\ cycle_calls = 0
    /\ trigger_calls[KeyOf(most_recent_update[1])] = 1

\* C34: the watermark changes only in the step that ends a successful
\* cycle, and then to the greatest end-time of the tracked lifelogs with
\* stable_count >= 3, of which there is at least one; once it is not none it
\* is never none again.
C34_WatermarkAssignedOnlyWhenStable ==
    [][ /\ last_stable_end_time' # last_stable_end_time =>
              /\ pc \in {"fetch", "log"}
              /\ pc' = "sleep"
              /\ StableEndTimes(last_lifelogs') # {}
              /\ IsMaxOf(last_stable_end_time', StableEndTimes(last_lifelogs'))
        /\ last_stable_end_time # NoneTime => last_stable_end_time' # NoneTime
      ]_vars

\* every tracked lifelog is gone after the watermark was set: it is kept
C34_Witness ==
    /\ pc = "sleep"
    /\ fetched
    /\ last_lifelogs = << >>
    /\ last_stable_end_time = 2

\* C35: the steps of a cycle follow one order: the fetch and classification,
\* then (with the key recorded) the trigger action, then the logging, then
\* the watermark update and the sleep, and a step that raises ends the cycle
\* in the sleep of the except clause; the transcript is written only in
\* the logging step, the watermark is not touched before it, and when an
\* update with a recorded trigger is in the transcript its trigger action
\* has been called.
C35_CycleOrder ==
    [][ /\ pc = "fetch"   => pc' \in {"trigger", "log", "sleep", "except"}
        /\ pc = "trigger" => pc' \in {"log", "except"}
        /\ pc = "log"     => pc' \in {"sleep", "except"}
        /\ pc \in {"sleep", "except"} => pc' = "fetch"
        /\ pc' = "trigger" =>
              /\ KeyOf(most_recent_update'[1]) \in processed_gemini_triggers'
              /\ DOMAIN last_lifelogs' = { l.id : l \in Range(lifelogs') }
        /\ pc' \in {"trigger", "log"} =>
              /\ last_stable_end_time' = last_stable_end_time
              /\ sleeping' = 0
        /\ transcript' # transcript =>
              \/ transcript' = << >>
              \/ /\ pc = "log"
                 /\ most_recent_update[1].has_gemini_trigger =>
                       trigger_calls[KeyOf(most_recent_update[1])] = 1
      ]_vars

\* the trigger action has ended with a response and the update is logged
C35_Witness ==
    /\ pc = "sleep"
    /\ trigger_outcome = "notified"
    /\ cycle_calls = 1
    /\ Len(transcript) = 1

\* C36: detect_gemini_trigger is true of a text exactly when
\* highlight_gemini_content changes it, and it gives the same result on the
\* highlighted text as on the text.
C36_DetectorAgreesWithHighlighter ==
    /\ (Len(detections) >= 1 /\ Len(outputs) >= 1) =>
          (detections[1] = (outputs[1] # text))
    /\ Len(detections) >= 2 => detections[2] = detections[1]

\* a text with the capitalised keyword: detected before and after highlighting
C36_Witness ==
    /\ text = <<"s", " ", "Gemini">>
    /\ Len(outputs) >= 1
    /\ detections = <<TRUE, TRUE>>

\* C37: the entries of the conversation log are numbered 1, 2, ... in
\* order, the speakers are instance 1 in the odd rounds and instance 2 in the
\* even ones, the prompt of round 1 is the initial prompt and the prompt of
\* every later round is the response logged for the round before, an error
\* string included; when start_conversation has completed the log has
\* exactly rounds entries.
C37_ConversationAlternates ==
    /\ \A k \in DOMAIN conversation_log :
          /\ conversation_log[k].round = k
          /\ conversation_log[k].speaker =
                IF k % 2 = 1 THEN "Codex Alpha" ELSE "Codex Beta"
          /\ conversation_log[k].prompt =
                IF k = 1 THEN initial_prompt ELSE conversation_log[k - 1].response
    /\ Len(conversation_log) <= rounds
    /\ conv_pc \in {"save", "completed"} => Len(conversation_log) = rounds

\* three rounds completed; the first response was the timeout error string
\* and was the prompt of round two
C37_Witness ==
    /\ conv_pc = "completed"
    /\ rounds = 3
    /\ Len(conversation_log) = 3
    /\ conversation_log[1].response = "Error: Command timed out after 120 seconds"
    /\ conversation_log[2].prompt = "Error: Command timed out after 120 seconds"
    /\ conversation_log[3].speaker = "Codex Alpha"

====
